---- MODULE Spec2Model ----
(***************************************************************************)
(* Model of kmc_sdls_test_app.py: the CCSDS transfer frame classes (TC,    *)
(* TM, AOS), the argparse type functions, and main()'s apply/process       *)
(* orchestration around the KmcSdlsClient.                                 *)
(*                                                                         *)
(* Python str values are sequences of one-character strings, bytes values  *)
(* are sequences of integers 0..255, and Python's None is the value None.  *)
(***************************************************************************)
EXTENDS Integers, Sequences, FiniteSets, TLC

\* ------------------------------------------------------------------------
\* Bounds of the model
\* ------------------------------------------------------------------------

\* Longest -f/--frame argument enumerated on the command line.
MaxFrameLen == 2

\* Longest sequence of Frame method calls explored by SpecFrame.
MaxOps == 3

\* ------------------------------------------------------------------------
\* Python primitives
\* ------------------------------------------------------------------------

None == <<"None">>

\* F applied to the value of e, e being evaluated once: the way a Python
\* statement evaluates an expression once and binds a name to its value.
Bind(e, F(_)) == CHOOSE r \in {F(v) : v \in {e}} : TRUE

Rep(c, n) == [i \in 1..n |-> c]

\* Outcome of an expression that may raise: the value, or the exception.
Ok(v) == [ok |-> TRUE, val |-> v, exc |-> ""]

Raise(e) == [ok |-> FALSE, val |-> <<>>, exc |-> e]

\* Truth value of an optional str: None and '' are false.
Truthy(s) == s # None /\ s # <<>>

DecDigits == <<"0", "1", "2", "3", "4", "5", "6", "7", "8", "9">>

HexDigits == DecDigits \o <<"a", "b", "c", "d", "e", "f">>

HexUpper == DecDigits \o <<"A", "B", "C", "D", "E", "F">>

IsDigit(c, base) == \E d \in 1..base : DecDigits[d] = c

DigitVal(c) == CHOOSE d \in 0..9 : DecDigits[d + 1] = c

\* The positions of s holding another character than c.
Others(s, c) == {i \in 1..Len(s) : s[i] # c}

First(S) == CHOOSE i \in S : \A j \in S : i <= j

Last(S) == CHOOSE i \in S : \A j \in S : j <= i

\* s without its leading characters c.
LStripChar(s, c) ==
  IF Others(s, c) = {} THEN <<>> ELSE SubSeq(s, First(Others(s, c)), Len(s))

\* str.lstrip() and str.rstrip(), the blank being the only whitespace modelled.
LStrip(s) == LStripChar(s, " ")

RStrip(s) ==
  IF Others(s, " ") = {} THEN <<>> ELSE SubSeq(s, 1, Last(Others(s, " ")))

LStripZeros(s) == LStripChar(s, "0")

\* int(s, base) for base 2 or 10: surrounding blanks stripped, an optional
\* sign, then one or more digits of the base; anything else is a ValueError.
\* The value is kept as sign and magnitude digits (Python ints are unbounded).
IntDigits(t, digs, base) ==
  LET good == digs # <<>> /\ \A i \in 1..Len(digs) : IsDigit(digs[i], base)
      mag == IF LStripZeros(digs) = <<>> THEN <<"0">> ELSE LStripZeros(digs)
  IN IF good
       THEN Ok([neg |-> Head(t) = "-" /\ mag # <<"0">>, mag |-> mag])
       ELSE Raise("ValueError")

PyInt(s, base) ==
  Bind(s, LAMBDA s1 :
    Bind(RStrip(LStrip(s1)), LAMBDA t :
      LET signed == t # <<>> /\ Head(t) \in {"-", "+"}
      IN Bind(IF signed THEN Tail(t) ELSE t, LAMBDA digs :
           IntDigits(t, digs, base))))

\* The number a string of digits of the base denotes (below 2^31).
RECURSIVE DigitsValue(_, _, _)
DigitsValue(digs, n, base) ==
  IF n = 0 THEN 0 ELSE base * DigitsValue(digs, n - 1, base) + DigitVal(digs[n])

DecValue(digs) == DigitsValue(digs, Len(digs), 10)

\* The machine integer of an int parsed in base 10.
IntOf(n) == IF n.neg THEN 0 - DecValue(n.mag) ELSE DecValue(n.mag)

\* The binary digits of n >= 0 (below 2^30), most significant first.
ToBin(n) ==
  LET len == CHOOSE w \in 1..30 : n < 2 ^ w /\ (w = 1 \/ n >= 2 ^ (w - 1))
  IN [i \in 1..len |-> DecDigits[((n \div (2 ^ (len - i))) % 2) + 1]]

\* "{0:0Wb}".format(n) when zero, "{0:Wb}".format(n) otherwise: the sign, the
\* binary digits, padded to at least width characters; zero padding goes
\* between the sign and the digits, blank padding to the left of the sign.
FormatBin(n, width, zero) ==
  Bind(ToBin(IF n < 0 THEN 0 - n ELSE n), LAMBDA mag :
    LET sign == IF n < 0 THEN <<"-">> ELSE <<>>
        gap == width - Len(sign) - Len(mag)
        pad == IF gap > 0 THEN gap ELSE 0
    IN IF zero THEN sign \o Rep("0", pad) \o mag
               ELSE Rep(" ", pad) \o sign \o mag)

NibbleVal(bits) ==
  8 * DigitVal(bits[1]) + 4 * DigitVal(bits[2]) + 2 * DigitVal(bits[3])
    + DigitVal(bits[4])

\* Hex digits of a bit string whose length is a multiple of four.
NibblesToHex(bits) ==
  [i \in 1..(Len(bits) \div 4) |->
     HexDigits[NibbleVal(SubSeq(bits, 4 * i - 3, 4 * i)) + 1]]

\* format(n, 'x') of an int parsed in base 2: no leading zeros, '0' for zero.
FormatHex(n) ==
  LET lead == (4 - (Len(n.mag) % 4)) % 4
  IN (IF n.neg THEN <<"-">> ELSE <<>>) \o NibblesToHex(Rep("0", lead) \o n.mag)

IsHexChar(c) == \E d \in 1..16 : HexDigits[d] = c \/ HexUpper[d] = c

HexVal(c) == CHOOSE d \in 0..15 : HexDigits[d + 1] = c \/ HexUpper[d + 1] = c

\* binascii.unhexlify(s): two hex digits per byte; an odd length or a
\* character that is no hex digit raises binascii.Error.
Unhexlify(s) ==
  Bind(s, LAMBDA h :
    IF Len(h) % 2 # 0 \/ \E i \in 1..Len(h) : ~IsHexChar(h[i])
      THEN Raise("binascii.Error")
      ELSE Ok([i \in 1..(Len(h) \div 2) |->
                 16 * HexVal(h[2 * i - 1]) + HexVal(h[2 * i])]))

\* ------------------------------------------------------------------------
\* argparse type functions
\* ------------------------------------------------------------------------

\* scid_type: the comparison's value is discarded; only a failing int()
\* raises, and the argument string itself is returned.
scid_type(scid) ==
  IF PyInt(scid, 10).ok THEN Ok(scid) ELSE Raise("ArgumentTypeError")

vcid_type(vcid) ==
  IF PyInt(vcid, 10).ok THEN Ok(vcid) ELSE Raise("ArgumentTypeError")

TCs == <<"T", "C">>

TMs == <<"T", "M">>

AOSs == <<"A", "O", "S">>

UpperChar(c) ==
  CASE c = "a" -> "A"
    [] c = "c" -> "C"
    [] c = "m" -> "M"
    [] c = "o" -> "O"
    [] c = "s" -> "S"
    [] c = "t" -> "T"
    [] c = "x" -> "X"
    [] OTHER -> c

\* str.upper(), on the letters the model's type tokens are made of.
Upper(s) == [i \in 1..Len(s) |-> UpperChar(s[i])]

frame_type(type) ==
  IF Upper(type) \notin {TCs, TMs, AOSs}
    THEN Raise("ArgumentTypeError")
    ELSE Ok(type)

\* ------------------------------------------------------------------------
\* Frame classes
\* ------------------------------------------------------------------------

\* Module-level default tables (not read by any class).
aos_defaults ==
  <<Rep("0", 2), <<"0", "0", "1", "0", "1", "1", "0", "0">>, Rep("0", 6),
    Rep("0", 24), <<"0">>, <<"1">>, Rep("0", 2), Rep("0", 4)>>

tm_defaults ==
  <<Rep("0", 2), <<"0", "0", "0", "0", "1", "0", "1", "1", "0", "0">>,
    Rep("0", 3), <<"0">>, Rep("0", 8), Rep("0", 8), <<"0">>, <<"0">>,
    <<"0">>, Rep("0", 2), Rep("0", 11)>>

\* Class attributes of TC, in header order around sc_id and vc_id.
TC_version == <<"0", "0">>

TC_bypass_flag == <<"1">>

TC_ctrl_cmd_flag == <<"0">>

TC_spare == <<"0", "0">>

TC_frame_length == <<"0", "0", "0", "0", "0", "0", "1", "0", "0", "0">>

TC_frame_sequence_number == Rep("0", 8)

\* The 188-digit default body TM and AOS share.
LongBody == Rep("0", 28) \o Rep("1", 128) \o Rep("0", 32)

\* A frame that has not been constructed yet.
NoFrame ==
  [kind |-> None, sc_id |-> None, vc_id |-> None, hex_value |-> None,
   override |-> FALSE, frame_header_hex |-> None, frame_body_hex |-> None,
   default_frame_hex |-> None]

\* TC(), TM(), AOS(): __init__ over the Frame class attributes.
NewFrame(kind) ==
  LET sc == CASE kind = TCs -> <<"0", "0", "0", "0", "1", "0", "1", "1", "0", "0">>
              [] kind = TMs -> <<"0", "0">> \o Rep("1", 8)
              [] kind = AOSs -> Rep("1", 9)
      vc == CASE kind = TCs -> <<"0", "0", "0", "0", "0", "1">>
              [] kind = TMs -> Rep("0", 3)
              [] kind = AOSs -> Rep("0", 6)
      hdr == CASE kind = TCs -> <<"2", "0", "2", "c", "0", "4", "0", "8", "0", "0">>
               [] kind = TMs -> <<"4", "f", "f">> \o Rep("0", 9)
               [] kind = AOSs -> <<"7", "f", "c">> \o Rep("0", 9)
      body == IF kind = TCs
                THEN <<"0", "0", "0", "1", "b", "d", "3", "7">>
                ELSE LongBody
  IN [kind |-> kind, sc_id |-> sc, vc_id |-> vc, hex_value |-> None,
      override |-> FALSE, frame_header_hex |-> hdr, frame_body_hex |-> body,
      default_frame_hex |-> hdr \o body]

override_scid(f, scid) == [f EXCEPT !.override = TRUE, !.sc_id = scid]

override_vcid(f, vcid) == [f EXCEPT !.override = TRUE, !.vc_id = vcid]

override_hex(f, hex) == [f EXCEPT !.override = TRUE, !.hex_value = hex]

set_body(f, hex) == [f EXCEPT !.frame_body_hex = hex]

\* The binary header string each to_hex assembles on its last branch.
frame_header_bin(f) ==
  IF f.kind = TCs
    THEN TC_version \o TC_bypass_flag \o TC_ctrl_cmd_flag \o TC_spare
           \o f.sc_id \o f.vc_id \o TC_frame_length \o TC_frame_sequence_number
    ELSE <<>>

\* to_hex testing the whole-frame override for truth instead of "is not None".
to_hex_truthy(f) ==
  IF Truthy(f.hex_value) THEN Ok(f.hex_value)
  ELSE IF ~f.override THEN Ok(f.default_frame_hex)
  ELSE Bind(PyInt(frame_header_bin(f), 2), LAMBDA n :
         IF n.ok THEN Ok(FormatHex(n.val) \o f.frame_body_hex)
                 ELSE Raise("ValueError"))

to_hex(f) ==
  IF f.hex_value # None THEN Ok(f.hex_value)
  ELSE IF ~f.override THEN Ok(f.default_frame_hex)
  ELSE Bind(PyInt(frame_header_bin(f), 2), LAMBDA n :
         IF n.ok THEN Ok(FormatHex(n.val) \o f.frame_body_hex)
                 ELSE Raise("ValueError"))

\* ------------------------------------------------------------------------
\* State of one run of the script
\* ------------------------------------------------------------------------

VARIABLES
  pc,              \* position in __main__ / main()
  cli_args,        \* the command line, then the parsed namespace
  f_type,          \* main's f_type
  frame,           \* main's frame object
  kmc_sdls_props,  \* main's kmc_sdls_props
  k,               \* whether KmcSdlsClient has been constructed
  tc,              \* main's tc (the decoded frame bytes)
  result,          \* main's result
  reversed_frame,  \* main's reversed_frame (the opaque Security Result)
  calls,           \* the KmcSdlsClient operations invoked so far, in order
  stdout,          \* what has been printed, by kind
  exc,             \* the exception in flight ("" for none)
  exit_status,     \* <<>> while running, <<status>> once the process exited
  api,             \* SpecFrame: the Frame methods called so far, in order
  hex_out          \* SpecFrame: what the last to_hex() call returned

vars ==
  <<pc, cli_args, f_type, frame, kmc_sdls_props, k, tc, result,
    reversed_frame, calls, stdout, exc, exit_status, api, hex_out>>

\* Limits the error messages of scid_type and vcid_type name.
ScidMax == 1023

VcidMax == 63

\* The ids the default TC frame carries.
DefaultScid == 44

DefaultVcid == 1

RECURSIVE Str(_)
Str(n) ==
  IF n < 10 THEN <<DecDigits[n + 1]>>
  ELSE Append(Str(n \div 10), DecDigits[(n % 10) + 1])

\* Command lines enumerated: each option absent (None) or given.
FrameChars == {"A", "g"}

FrameArgs == {None} \cup UNION {[1..n -> FrameChars] : n \in 0..MaxFrameLen}

ScidArgs ==
  {None, <<"x">>, <<"-", "1">>}
    \cup {Str(n) : n \in {0, DefaultScid, ScidMax, ScidMax + 1}}

VcidArgs ==
  {None, <<"x">>} \cup {Str(n) : n \in {0, DefaultVcid, VcidMax, VcidMax + 1}}

TypeArgs == {None, <<"t", "c">>, TMs, <<"a", "o", "s">>, <<"X", "X">>}

\* A properties file (None: the file cannot be opened).
PropertiesFile == << <<"#", "c">>, <<>>, <<" ">>, <<"k", "=", "v", " ">> >>

PropertiesArgs == {None, PropertiesFile}

Idle ==
  /\ kmc_sdls_props = <<>>
  /\ k = FALSE
  /\ tc = <<>>
  /\ result = <<>>
  /\ reversed_frame = ""
  /\ calls = <<>>
  /\ stdout = <<>>
  /\ exc = ""
  /\ exit_status = <<>>
  /\ api = <<>>
  /\ hex_out = Raise("")

Init ==
  /\ pc = "start"
  /\ cli_args \in [frame : FrameArgs, properties : PropertiesArgs,
                   process_only : BOOLEAN, apply_only : BOOLEAN,
                   scid : ScidArgs, vcid : VcidArgs, type : TypeArgs]
  /\ f_type = None
  /\ frame = NoFrame
  /\ Idle

\* ------------------------------------------------------------------------
\* main()
\* ------------------------------------------------------------------------

\* parser.parse_args(): every given option passes through its type function;
\* a rejected option makes argparse call sys.exit(2).
ArgsAccepted(a) ==
  /\ a.type # None => frame_type(a.type).ok
  /\ a.scid # None => scid_type(a.scid).ok
  /\ a.vcid # None => vcid_type(a.vcid).ok
  /\ a.properties # None

ParseArgs ==
  /\ pc = "start"
  /\ IF ArgsAccepted(cli_args)
       THEN pc' = "build" /\ exc' = exc
       ELSE pc' = "finally" /\ exc' = "SystemExit"
  /\ UNCHANGED <<cli_args, f_type, frame, kmc_sdls_props, k, tc, result,
                 reversed_frame, calls, stdout, exit_status, api, hex_out>>

BuildFrame ==
  /\ pc = "build"
  /\ LET t == IF cli_args.type # None THEN Upper(cli_args.type) ELSE TCs
     IN IF t \in {TCs, TMs, AOSs}
          THEN f_type' = t /\ frame' = NewFrame(t) /\ pc' = "check"
               /\ exc' = exc
          ELSE f_type' = t /\ frame' = frame /\ pc' = "except"
               /\ exc' = "ArgumentException"
  /\ UNCHANGED <<cli_args, kmc_sdls_props, k, tc, result, reversed_frame,
                 calls, stdout, exit_status, api, hex_out>>

\* The condition of the mutual-exclusion check.
Conflict(a) == Truthy(a.frame) /\ (Truthy(a.scid) \/ Truthy(a.vcid))

CheckExclusive ==
  /\ pc = "check"
  /\ IF Conflict(cli_args)
       THEN pc' = "except" /\ exc' = "ArgumentException"
       ELSE pc' = "scid" /\ exc' = exc
  /\ UNCHANGED <<cli_args, f_type, frame, kmc_sdls_props, k, tc, result,
                 reversed_frame, calls, stdout, exit_status, api, hex_out>>

\* The format spec main picks for the SC-ID: its width and whether it is
\* zero padded.
\* scid_fmt with the TC width that of an 8-bit field.
scid_fmt_narrow(t) ==
  CASE t = TMs -> [width |-> 10, zero |-> FALSE]
    [] t = AOSs -> [width |-> 8, zero |-> TRUE]
    [] OTHER -> [width |-> 8, zero |-> TRUE]

scid_fmt(t) ==
  CASE t = TMs -> [width |-> 10, zero |-> FALSE]
    [] t = AOSs -> [width |-> 8, zero |-> TRUE]
    [] OTHER -> [width |-> 10, zero |-> TRUE]

vcid_fmt(t) ==
  CASE t = TMs -> [width |-> 3, zero |-> TRUE]
    [] t = AOSs -> [width |-> 6, zero |-> TRUE]
    [] OTHER -> [width |-> 6, zero |-> TRUE]

\* fmt.format(int(arg))
FormatId(fmt, arg) ==
  Bind(IntOf(PyInt(arg, 10).val), LAMBDA n :
    FormatBin(n, fmt.width, fmt.zero))

ScidOverride ==
  /\ pc = "scid"
  /\ frame' = IF Truthy(cli_args.scid)
                THEN override_scid(frame, FormatId(scid_fmt(f_type), cli_args.scid))
                ELSE frame
  /\ pc' = "vcid"
  /\ UNCHANGED <<cli_args, f_type, kmc_sdls_props, k, tc, result,
                 reversed_frame, calls, stdout, exc, exit_status, api, hex_out>>

VcidOverride ==
  /\ pc = "vcid"
  /\ frame' = IF Truthy(cli_args.vcid)
                THEN override_vcid(frame, FormatId(vcid_fmt(f_type), cli_args.vcid))
                ELSE frame
  /\ pc' = "hex"
  /\ UNCHANGED <<cli_args, f_type, kmc_sdls_props, k, tc, result,
                 reversed_frame, calls, stdout, exc, exit_status, api, hex_out>>

HexOverride ==
  /\ pc = "hex"
  /\ frame' = IF Truthy(cli_args.frame)
                THEN override_hex(frame, cli_args.frame)
                ELSE frame
  /\ pc' = "client"
  /\ UNCHANGED <<cli_args, f_type, kmc_sdls_props, k, tc, result,
                 reversed_frame, calls, stdout, exc, exit_status, api, hex_out>>

\* The lines of the properties file kept: not a comment, not blank; each
\* right-stripped.
KeepLine(line) ==
  ~(line # <<>> /\ Head(line) = "#") /\ RStrip(line) # <<>>

PropLines(lines) ==
  LET kept == SelectSeq(lines, KeepLine)
  IN [i \in 1..Len(kept) |-> RStrip(kept[i])]

\* The properties are read, then KmcSdlsClient is constructed; the
\* constructor returns or raises.
InitClient ==
  /\ pc = "client"
  /\ kmc_sdls_props' = PropLines(cli_args.properties)
  /\ \/ k' = TRUE /\ pc' = "print" /\ exc' = exc
     \/ k' = k /\ pc' = "except" /\ exc' = "ServiceError"
  /\ UNCHANGED <<cli_args, f_type, frame, tc, result, reversed_frame, calls,
                 stdout, exit_status, api, hex_out>>

\* print("Using telecommand transfer frame: ..." % frame.to_hex())
PrintFrame ==
  /\ pc = "print"
  /\ \E h \in {to_hex(frame)} :
       IF h.ok
         THEN stdout' = Append(stdout, "frame") /\ pc' = "decode"
              /\ exc' = exc
         ELSE stdout' = stdout /\ pc' = "except" /\ exc' = h.exc
  /\ UNCHANGED <<cli_args, f_type, frame, kmc_sdls_props, k, tc, result,
                 reversed_frame, calls, exit_status, api, hex_out>>

\* tc = bytearray(binascii.unhexlify(frame.to_hex()))
Decode ==
  /\ pc = "decode"
  /\ \E h \in {to_hex(frame)} :
       \E b \in {IF h.ok THEN Unhexlify(h.val) ELSE h} :
         IF b.ok
           THEN tc' = b.val /\ pc' = "apply" /\ exc' = exc
           ELSE tc' = tc /\ pc' = "except" /\ exc' = b.exc
  /\ UNCHANGED <<cli_args, f_type, frame, kmc_sdls_props, k, result,
                 reversed_frame, calls, stdout, exit_status, api, hex_out>>

\* ApplyRuns testing the wrong flag first.
ApplyRuns_wrong_flag(a) ==
  ~a.apply_only \/ (a.process_only /\ a.apply_only)

\* ProcessRuns without its second disjunct.
ProcessRuns_no_both(a) == ~a.apply_only

\* The two conditions of main on the mode flags.
ApplyRuns(a) ==
  ~a.process_only \/ (a.process_only /\ a.apply_only)

ProcessRuns(a) ==
  ~a.apply_only \/ (a.process_only /\ a.apply_only)

apply_fn(t) ==
  CASE t = TMs -> "apply_security_tm"
    [] t = AOSs -> "apply_security_aos"
    [] OTHER -> "apply_security_tc"

process_fn(t) ==
  CASE t = TMs -> "process_security_tm"
    [] t = AOSs -> "process_security_aos"
    [] OTHER -> "process_security_tc"

\* The report function main calls for a frame type ("" when none matches).
print_fn(t) ==
  CASE t = TCs -> "print_tc"
    [] t = AOSs -> "print_aos"
    [] t = TMs -> "print_tm"
    [] OTHER -> ""

\* What apply-security may return for a frame: the service is external, so
\* the model lets it return the frame itself or the frame with a trailer.
ApplyReturns(b) == {b, b \o <<255>>}

\* process_input handing over the decoded frame instead of the result.
process_input_raw(res, raw) == raw

\* The buffer main hands to process-security.
process_input(res, raw) == res

Apply ==
  /\ pc = "apply"
  /\ IF ApplyRuns(cli_args)
       THEN \/ \E r \in ApplyReturns(tc) :
                 /\ calls' = Append(calls, [op |-> apply_fn(f_type), arg |-> tc,
                                            ok |-> TRUE, ret |-> r])
                 /\ result' = r
                 /\ stdout' = Append(stdout, "apply_result")
                 /\ pc' = "process"
                 /\ exc' = exc
            \/ /\ calls' = Append(calls, [op |-> apply_fn(f_type), arg |-> tc,
                                          ok |-> FALSE, ret |-> <<>>])
               /\ result' = result
               /\ stdout' = stdout
               /\ pc' = "except"
               /\ exc' = "ServiceError"
       ELSE /\ result' = tc
            /\ pc' = "process"
            /\ UNCHANGED <<calls, stdout, exc>>
  /\ UNCHANGED <<cli_args, f_type, frame, kmc_sdls_props, k, tc,
                 reversed_frame, exit_status, api, hex_out>>

Process ==
  /\ pc = "process"
  /\ IF ProcessRuns(cli_args)
       THEN \/ /\ calls' = Append(calls, [op |-> process_fn(f_type),
                                          arg |-> process_input(result, tc),
                                          ok |-> TRUE, ret |-> <<>>])
               /\ reversed_frame' = "SecurityResult"
               /\ stdout' = stdout \o <<"process_result", print_fn(f_type)>>
               /\ pc' = "finally"
               /\ exc' = exc
            \/ /\ calls' = Append(calls, [op |-> process_fn(f_type),
                                          arg |-> process_input(result, tc),
                                          ok |-> FALSE, ret |-> <<>>])
               /\ reversed_frame' = reversed_frame
               /\ stdout' = stdout
               /\ pc' = "except"
               /\ exc' = "ServiceError"
       ELSE /\ pc' = "finally"
            /\ UNCHANGED <<calls, reversed_frame, stdout, exc>>
  /\ UNCHANGED <<cli_args, f_type, frame, kmc_sdls_props, k, tc, result,
                 exit_status, api, hex_out>>

\* ------------------------------------------------------------------------
\* __main__: the handlers around main()
\* ------------------------------------------------------------------------

HandleArgumentException ==
  /\ pc = "except"
  /\ exc = "ArgumentException"
  /\ stdout' = Append(stdout, "Command Line Argument Error")
  /\ pc' = "finally"
  /\ UNCHANGED <<cli_args, f_type, frame, kmc_sdls_props, k, tc, result,
                 reversed_frame, calls, exc, exit_status, api, hex_out>>

HandleException ==
  /\ pc = "except"
  /\ exc \notin {"ArgumentException", "SystemExit"}
  /\ stdout' = Append(stdout, "Encountered an unexpected error")
  /\ pc' = "finally"
  /\ UNCHANGED <<cli_args, f_type, frame, kmc_sdls_props, k, tc, result,
                 reversed_frame, calls, exc, exit_status, api, hex_out>>

\* Finally letting the pending outcome decide the status, as the script
\* would without its finally clause.
Finally_no_clause ==
  /\ pc = "finally"
  /\ exit_status' = (CASE exc = "" -> <<0>>
                       [] exc = "SystemExit" -> <<2>>
                       [] OTHER -> <<1>>)
  /\ pc' = "exited"
  /\ UNCHANGED <<cli_args, f_type, frame, kmc_sdls_props, k, tc, result,
                 reversed_frame, calls, stdout, exc, api, hex_out>>

\* finally: os._exit(1)
Finally ==
  /\ pc = "finally"
  /\ exit_status' = <<1>>
  /\ pc' = "exited"
  /\ UNCHANGED <<cli_args, f_type, frame, kmc_sdls_props, k, tc, result,
                 reversed_frame, calls, stdout, exc, api, hex_out>>

Next ==
  \/ ParseArgs
  \/ BuildFrame
  \/ CheckExclusive
  \/ ScidOverride
  \/ VcidOverride
  \/ HexOverride
  \/ InitClient
  \/ PrintFrame
  \/ Decode
  \/ Apply
  \/ Process
  \/ HandleArgumentException
  \/ HandleException
  \/ Finally

Spec == Init /\ [][Next]_vars

\* The interpreter runs the script's statements one after the other and the
\* client's calls return or raise: a step that can be taken is taken.
SpecFair == Init /\ [][Next]_vars /\ WF_vars(Next)

\* ------------------------------------------------------------------------
\* The Frame interface on its own: any sequence of its methods
\* ------------------------------------------------------------------------

FrameKinds == {TCs, TMs, AOSs}

\* Arguments the calls are enumerated with.
ApiIds == {FormatBin(0, 10, TRUE), <<"1">>}

ApiHexes == {<<>>, <<"a", "b">>, <<"0", "g">>}

ApiBodies == {<<"f", "f">>}

NoArgs ==
  [frame |-> None, properties |-> PropertiesFile, process_only |-> FALSE,
   apply_only |-> FALSE, scid |-> None, vcid |-> None, type |-> None]

InitFrame ==
  /\ pc = "api"
  /\ cli_args = NoArgs
  /\ f_type \in FrameKinds
  /\ frame = NewFrame(f_type)
  /\ Idle

CallOverrideScid ==
  /\ pc = "api"
  /\ Len(api) < MaxOps
  /\ \E v \in ApiIds :
       /\ frame' = override_scid(frame, v)
       /\ api' = Append(api, [op |-> "override_scid", arg |-> v])
  /\ UNCHANGED <<pc, cli_args, f_type, kmc_sdls_props, k, tc, result,
                 reversed_frame, calls, stdout, exc, exit_status, hex_out>>

CallOverrideVcid ==
  /\ pc = "api"
  /\ Len(api) < MaxOps
  /\ \E v \in ApiIds :
       /\ frame' = override_vcid(frame, v)
       /\ api' = Append(api, [op |-> "override_vcid", arg |-> v])
  /\ UNCHANGED <<pc, cli_args, f_type, kmc_sdls_props, k, tc, result,
                 reversed_frame, calls, stdout, exc, exit_status, hex_out>>

CallOverrideHex ==
  /\ pc = "api"
  /\ Len(api) < MaxOps
  /\ \E h \in ApiHexes :
       /\ frame' = override_hex(frame, h)
       /\ api' = Append(api, [op |-> "override_hex", arg |-> h])
  /\ UNCHANGED <<pc, cli_args, f_type, kmc_sdls_props, k, tc, result,
                 reversed_frame, calls, stdout, exc, exit_status, hex_out>>

CallSetBody ==
  /\ pc = "api"
  /\ Len(api) < MaxOps
  /\ \E h \in ApiBodies :
       /\ frame' = set_body(frame, h)
       /\ api' = Append(api, [op |-> "set_body", arg |-> h])
  /\ UNCHANGED <<pc, cli_args, f_type, kmc_sdls_props, k, tc, result,
                 reversed_frame, calls, stdout, exc, exit_status, hex_out>>

CallToHex ==
  /\ pc = "api"
  /\ Len(api) < MaxOps
  /\ hex_out' = to_hex(frame)
  /\ api' = Append(api, [op |-> "to_hex", arg |-> <<>>])
  /\ UNCHANGED <<pc, cli_args, f_type, frame, kmc_sdls_props, k, tc, result,
                 reversed_frame, calls, stdout, exc, exit_status>>

NextFrame ==
  \/ CallOverrideScid
  \/ CallOverrideVcid
  \/ CallOverrideHex
  \/ CallSetBody
  \/ CallToHex

SpecFrame == InitFrame /\ [][NextFrame]_vars

\* ------------------------------------------------------------------------
\* main() on a TC frame, from the field overrides to the decoded bytes, for
\* every SC-ID and VC-ID of the documented ranges
\* ------------------------------------------------------------------------

InitTC ==
  /\ pc = "scid"
  /\ cli_args \in [frame : {None}, properties : {PropertiesFile},
                   process_only : {FALSE}, apply_only : {FALSE},
                   scid : {None} \cup {Str(n) : n \in 0..ScidMax},
                   vcid : {None} \cup {Str(n) : n \in 0..VcidMax},
                   type : {None}]
  /\ f_type = TCs
  /\ frame = NewFrame(TCs)
  /\ Idle

NextTC ==
  \/ ScidOverride
  \/ VcidOverride
  \/ HexOverride
  \/ InitClient
  \/ PrintFrame
  \/ Decode

SpecTC == InitTC /\ [][NextTC]_vars

\* ------------------------------------------------------------------------
\* Properties
\* ------------------------------------------------------------------------

ApplyOps == {"apply_security_tc", "apply_security_tm", "apply_security_aos"}

ProcessOps ==
  {"process_security_tc", "process_security_tm", "process_security_aos"}

ApplyCalls == {i \in 1..Len(calls) : calls[i].op \in ApplyOps}

ProcessCalls == {i \in 1..Len(calls) : calls[i].op \in ProcessOps}

\* main() returned normally and the process has exited.
CompletedNormally == pc = "exited" /\ exc = ""

\* The bytes the frame's to_hex() decodes to (<<>> when either step raises).
RawBytes ==
  IF to_hex(frame).ok /\ Unhexlify(to_hex(frame).val).ok
    THEN Unhexlify(to_hex(frame).val).val
    ELSE <<>>

\* C1: in a run where no step fails, apply-security is invoked exactly once
\* iff not (process_only and not apply_only), and otherwise never;
\* process-security is invoked exactly once iff not (apply_only and not
\* process_only), and otherwise never. With apply_only alone, process is never
\* invoked at any point of the run; with both flags set both steps run, as
\* with neither.
C1_ModeTable ==
  LET ao == cli_args.apply_only
      po == cli_args.process_only
  IN /\ CompletedNormally =>
          /\ Cardinality(ApplyCalls) = (IF po /\ ~ao THEN 0 ELSE 1)
          /\ Cardinality(ProcessCalls) = (IF ao /\ ~po THEN 0 ELSE 1)
     /\ (ao /\ ~po) => ProcessCalls = {}

C1_Witness ==
  /\ CompletedNormally
  /\ cli_args.apply_only /\ cli_args.process_only
  /\ Cardinality(ApplyCalls) = 1
  /\ Cardinality(ProcessCalls) = 1

\* The operations and the report function that belong to the run's frame type.
OwnApply ==
  CASE f_type = TCs -> "apply_security_tc"
    [] f_type = TMs -> "apply_security_tm"
    [] f_type = AOSs -> "apply_security_aos"
    [] OTHER -> ""

OwnProcess ==
  CASE f_type = TCs -> "process_security_tc"
    [] f_type = TMs -> "process_security_tm"
    [] f_type = AOSs -> "process_security_aos"
    [] OTHER -> ""

OwnPrint ==
  CASE f_type = TCs -> "print_tc"
    [] f_type = TMs -> "print_tm"
    [] f_type = AOSs -> "print_aos"
    [] OTHER -> ""

Reports == {i \in 1..Len(stdout) : stdout[i] \in {"print_tc", "print_tm", "print_aos"}}

\* C2: with neither flag set, the first operation invoked is the frame type's
\* apply-security, on the bytes the frame's to_hex() decodes to; the second,
\* invoked only after apply returned, is the frame type's process-security,
\* on exactly the bytes apply returned; nothing else is ever invoked, and the
\* only report function used is the frame type's. A run in which no step
\* fails has made exactly these two calls and printed that report.
C2_ApplyThenProcess ==
  (~cli_args.apply_only /\ ~cli_args.process_only) =>
    /\ Len(calls) <= 2
    /\ Len(calls) >= 1 =>
         /\ calls[1].op = OwnApply
         /\ calls[1].arg = RawBytes
    /\ Len(calls) = 2 =>
         /\ calls[1].ok
         /\ calls[2].op = OwnProcess
         /\ calls[2].arg = calls[1].ret
    /\ \A i \in Reports : stdout[i] = OwnPrint /\ Len(calls) = 2 /\ calls[2].ok
    /\ CompletedNormally =>
         /\ Len(calls) = 2
         /\ Cardinality(Reports) = 1

C2_Witness ==
  /\ CompletedNormally
  /\ ~cli_args.apply_only /\ ~cli_args.process_only
  /\ f_type = TMs
  /\ Len(calls) = 2
  /\ calls[1].ret # calls[1].arg
  /\ calls[2].arg = calls[1].ret
  /\ stdout[Len(stdout)] = "print_tm"

\* C3: with process_only alone, apply-security is never invoked, and the
\* buffer handed to process-security is exactly the bytes the frame's
\* to_hex() decodes to.
C3_ProcessOnlyRaw ==
  (~cli_args.apply_only /\ cli_args.process_only) =>
    /\ ApplyCalls = {}
    /\ \A i \in ProcessCalls : calls[i].arg = RawBytes /\ calls[i].op = OwnProcess
    /\ Len(calls) <= 1
    /\ CompletedNormally => Len(calls) = 1

C3_Witness ==
  /\ CompletedNormally
  /\ ~cli_args.apply_only /\ cli_args.process_only
  /\ f_type = AOSs
  /\ Len(calls) = 1
  /\ calls[1].op = "process_security_aos"
  /\ calls[1].arg = RawBytes
  /\ Len(calls[1].arg) = 100

\* C4 (as claimed): whenever -f is given together with -s or -V, the run
\* fails with the argument error before any override is applied, before the
\* client is constructed and before any apply or process call.
C4_Claim ==
  (/\ cli_args.frame # None
   /\ cli_args.scid # None \/ cli_args.vcid # None
   /\ pc \notin {"start", "build", "check"}) =>
    /\ exc \in {"ArgumentException", "SystemExit"}
    /\ frame.override = FALSE
    /\ k = FALSE
    /\ calls = <<>>

\* The integer an id argument denotes, when it denotes one.
IdGiven(arg) == arg # None /\ PyInt(arg, 10).ok

IdValue(arg) == IntOf(PyInt(arg, 10).val)

OutOfRange(arg, max) == IdGiven(arg) /\ (IdValue(arg) < 0 \/ IdValue(arg) > max)

\* C5 (as claimed): an SC-ID outside 0..1023 or a VC-ID outside 0..63 is
\* rejected by argument parsing: no frame is constructed, no override is
\* applied and no client call is made.
C5_Claim ==
  (OutOfRange(cli_args.scid, ScidMax) \/ OutOfRange(cli_args.vcid, VcidMax)) =>
    \/ pc = "start"
    \/ /\ exc = "SystemExit"
       /\ frame = NoFrame
       /\ calls = <<>>

HexBits(c) ==
  LET v == HexVal(c)
  IN <<DecDigits[(v \div 8) + 1], DecDigits[((v \div 4) % 2) + 1],
       DecDigits[((v \div 2) % 2) + 1], DecDigits[(v % 2) + 1]>>

HexToBits(h) ==
  [i \in 1..(4 * Len(h)) |-> HexBits(h[((i - 1) \div 4) + 1])[((i - 1) % 4) + 1]]

BitsValue(bits) == DigitsValue(bits, Len(bits), 2)

\* First and last bit of the SC-ID and VC-ID fields in each header.
ScidField(t) ==
  CASE t = TCs -> <<7, 16>>
    [] t = TMs -> <<3, 12>>
    [] OTHER -> <<3, 10>>

VcidField(t) ==
  CASE t = TCs -> <<17, 22>>
    [] t = TMs -> <<13, 15>>
    [] OTHER -> <<11, 16>>

\* The header of a to_hex() result of the default header's length reads
\* back value v in field fld.
ReadsBack(h, fld, v) ==
  BitsValue(SubSeq(HexToBits(SubSeq(h, 1, Len(frame.frame_header_hex))),
                   fld[1], fld[2])) = v

\* C6 (as claimed): for each frame type, once in-range SC-ID / VC-ID field
\* overrides have been applied (and no whole-frame override), to_hex()
\* returns a hex string whose header has the default header's length and
\* reads back the overriding values at the type's field offsets.
C6_Claim ==
  (/\ pc \in {"hex", "client", "print", "decode", "apply", "process"}
   /\ ~Truthy(cli_args.frame)
   /\ Truthy(cli_args.scid) \/ Truthy(cli_args.vcid)
   /\ ~OutOfRange(cli_args.scid, ScidMax)
   /\ ~OutOfRange(cli_args.vcid, VcidMax)) =>
    /\ to_hex(frame).ok
    /\ Unhexlify(to_hex(frame).val).ok
    /\ Len(to_hex(frame).val)
         = Len(frame.frame_header_hex) + Len(frame.frame_body_hex)
    /\ Truthy(cli_args.scid) =>
         ReadsBack(to_hex(frame).val, ScidField(f_type), IdValue(cli_args.scid))
    /\ Truthy(cli_args.vcid) =>
         ReadsBack(to_hex(frame).val, VcidField(f_type), IdValue(cli_args.vcid))

\* The override_hex calls made so far.
HexCalls == {i \in 1..Len(api) : api[i].op = "override_hex"}

LastHexCall == CHOOSE i \in HexCalls : \A j \in HexCalls : j <= i

\* C7: once override_hex(h) has been called, to_hex() returns the h of the
\* most recent such call, whatever override_scid, override_vcid and set_body
\* calls came before or after it.
C7_HexOverrideWins ==
  (pc = "api" /\ HexCalls # {}) =>
    /\ to_hex(frame) = Ok(api[LastHexCall].arg)
    /\ api[Len(api)].op = "to_hex" => hex_out = Ok(api[LastHexCall].arg)

C7_Witness ==
  /\ pc = "api"
  /\ Len(api) = 3
  /\ api[1].op = "override_hex"
  /\ api[1].arg = <<>>
  /\ api[2].op = "override_scid"
  /\ api[3].op = "to_hex"
  /\ hex_out = Ok(<<>>)

RECURSIVE Concat(_)
Concat(fields) ==
  IF fields = <<>> THEN <<>> ELSE Head(fields) \o Concat(Tail(fields))

\* The documented default bit-field table of each frame type.
DefaultTable(t) ==
  CASE t = TCs -> frame_header_bin(NewFrame(TCs))
    [] t = TMs -> Concat(tm_defaults)
    [] OTHER -> Concat(aos_defaults)

\* C8 (as claimed): a frame with no override returns its literal default
\* header followed by its default body (for TC 202c040800 then 0001bd37), and
\* that literal header is the hex of the type's default bit-field table.
C8_Claim ==
  (frame # NoFrame /\ ~frame.override) =>
    /\ to_hex(frame) = Ok(frame.frame_header_hex \o frame.frame_body_hex)
    /\ f_type = TCs =>
         to_hex(frame).val
           = <<"2", "0", "2", "c", "0", "4", "0", "8", "0", "0",
               "0", "0", "0", "1", "b", "d", "3", "7">>
    /\ frame.frame_header_hex = NibblesToHex(DefaultTable(f_type))

ApplyFailed == \E i \in ApplyCalls : ~calls[i].ok

\* C9: every run ends with exit status 1, whatever path it takes (main
\* returning, the argument error, any other exception, argparse rejecting
\* the command line); no operation is invoked twice, and once apply has
\* failed nothing more is invoked.
C9_AlwaysExitsOne ==
  /\ <>(pc = "exited" /\ exit_status = <<1>>)
  /\ [](exit_status \in {<<>>, <<1>>})
  /\ [](Cardinality(ApplyCalls) <= 1 /\ Cardinality(ProcessCalls) <= 1)
  /\ [](ApplyFailed => Len(calls) = 1)

C9_Witness ==
  /\ pc = "exited"
  /\ exit_status = <<1>>
  /\ ApplyFailed
  /\ exc = "ServiceError"
  /\ ProcessCalls = {}

\* C10: on a TC frame, for every SC-ID in 0..1023 and VC-ID in 0..63 given
\* as field overrides, to_hex() assembles a header of exactly 10 hex digits,
\* so the decoded frame has 5 + len(body_hex)/2 bytes; and with SC-ID 44
\* and/or VC-ID 1 (the defaults) the assembled frame is the un-overridden
\* frame 202c0408000001bd37.
C10_AssemblyMatchesLiteral ==
  LET h == to_hex(frame)
      raw == Unhexlify(h.val)
      body == frame.frame_body_hex
      dflt(arg, d) == arg \in {None, Str(d)}
  IN /\ h.ok
     /\ Len(h.val) = 10 + Len(body)
     /\ SubSeq(h.val, 11, Len(h.val)) = body
     /\ raw.ok
     /\ Len(raw.val) = 5 + (Len(body) \div 2)
     /\ pc = "apply" => tc = raw.val
     /\ (/\ pc \notin {"scid", "vcid"}
         /\ dflt(cli_args.scid, DefaultScid)
         /\ dflt(cli_args.vcid, DefaultVcid)) =>
          h.val = <<"2", "0", "2", "c", "0", "4", "0", "8", "0", "0",
                    "0", "0", "0", "1", "b", "d", "3", "7">>

C10_Witness ==
  /\ pc = "apply"
  /\ cli_args.scid = Str(DefaultScid)
  /\ cli_args.vcid = Str(DefaultVcid)
  /\ frame.override
  /\ frame.hex_value = None
  /\ tc = <<32, 44, 4, 8, 0, 0, 1, 189, 55>>

====
